---- MODULE Spec2Model ----
(***************************************************************************)
(* A model of statscan_wrapper/statscan.py: the URL builder, the           *)
(* download/cache/extract pipeline (download_table) and the table loader   *)
(* (get_table), run by one or several callers against one cache directory. *)
(*                                                                         *)
(* Strings are sequences of pieces; every piece an operation looks into    *)
(* (identifier characters, file-name characters) is a single character.    *)
(* A path is the sequence of its components below the cache root, so the   *)
(* cache root itself is the empty path.                                    *)
(***************************************************************************)
EXTENDS Naturals, Sequences, FiniteSets, TLC

\* ------------------------------------------------------------------ bounds
MaxCalls == 2      \* calls started in one behaviour
MaxMembers == 2    \* members of a served archive
MaxIdLen == 3      \* characters of an identifier given to get_table_url

\* ----------------------------------------------------------------- strings
\* str.replace(ch, "") for a one-character pattern
Replace(s, ch) == SelectSeq(s, LAMBDA c : c # ch)

\* str.lower(), on the characters the file names of the model are made of
LowerChar(c) ==
  CASE c = "C" -> "c"
    [] c = "S" -> "s"
    [] c = "V" -> "v"
    [] c = "D" -> "d"
    [] OTHER -> c

Lower(s) == [i \in 1..Len(s) |-> LowerChar(s[i])]

\* str.endswith(suffix)
EndsWith(s, suffix) ==
  /\ Len(s) >= Len(suffix)
  /\ SubSeq(s, Len(s) - Len(suffix) + 1, Len(s)) = suffix

DotCsv == <<".", "c", "s", "v">>

\* ------------------------------------------------------------- URL builder
base_url == <<"https://www150.statcan.gc.ca/n1/tbl/csv/">>

clean_id(table_id) == Replace(Replace(table_id, "-"), " ")

\* a mutation of get_table_url: the spaces are left in
get_table_url_hyphens_only(table_id, language) ==
  base_url \o Replace(table_id, "-") \o <<"-", language, ".zip">>

get_table_url(table_id, language) ==
  base_url \o clean_id(table_id) \o <<"-", language, ".zip">>

\* ------------------------------------------------------------------- paths
\* a mutation of csv_path: the cache is keyed by the normalized identifier
csv_path_normalized(table_id, language) ==
  << clean_id(table_id) \o <<"-", language>>,
     clean_id(table_id) \o <<"-", language>> \o DotCsv >>

zip_path(table_id, language) == << table_id \o <<"-", language, ".zip">> >>

table_dir(table_id, language) == << table_id \o <<"-", language>> >>

csv_path(table_id, language) ==
  Append(table_dir(table_id, language), table_id \o <<"-", language>> \o DotCsv)

\* the file test_cache_reuse seeds: <cache_dir>/<table_id>.csv
test_seed_path(table_id) == << table_id \o DotCsv >>

cache_root == << >>

\* --------------------------------------------------------- the environment
\* the callers: two, so that two calls can overlap
Procs == { 1, 2 }

\* the (identifier, language) pairs the callers ask for: two identifiers that
\* differ in their hyphens only, and one of them in both languages
Tables == { << <<"1", "-", "0">>, "eng" >>, << <<"1", "0">>, "eng" >>,
            << <<"1", "-", "0">>, "fra" >> }

Ops == { "download_table", "get_table" }

\* file names an archive may hold, for a request of (table_id, language)
DataName == <<"d", ".", "C", "S", "V">>
NoteName == <<"r", ".", "t", "x", "t">>

MemberNames(table_id, language) ==
  { DataName, NoteName, table_id \o <<"-", language>> \o DotCsv }

\* sequences of distinct names, at most n long
RECURSIVE NameLists(_, _)
NameLists(names, n) ==
  IF n = 0 THEN { << >> }
  ELSE LET shorter == NameLists(names, n - 1)
       IN  shorter \cup
           { Append(l, x) : l \in { s \in shorter : Len(s) = n - 1 },
                            x \in names }

Distinct(l) == \A i, j \in 1..Len(l) : i # j => l[i] # l[j]

Archive(names) == [t |-> "zip", ok |-> TRUE, names |-> names, data |-> << >>]
NotAnArchive == [t |-> "zip", ok |-> FALSE, names |-> << >>, data |-> << >>]
Directory == [t |-> "dir", ok |-> TRUE, names |-> << >>, data |-> << >>]
Text(data) == [t |-> "text", ok |-> TRUE, names |-> << >>, data |-> data]

\* the bodies the server may answer a successful GET with
Bodies(table_id, language) ==
  { Archive(l) : l \in { s \in NameLists(MemberNames(table_id, language), MaxMembers)
                           : Distinct(s) } }
  \cup { NotAnArchive }

\* the bytes of an archive member, told apart by the member's name
MemberData(name) == <<"bytes of">> \o name

SeedRows == <<"REF_DATE,GEO,VALUE", "2020-01,Canada,100", "2020-02,Canada,101">>
Malformed == <<"malformed">>

\* ------------------------------------------------------------------- state
VARIABLES
  fs,            \* the cache directory: path -> what is stored there
  seeded,        \* the paths that were on disk before the first call
  pc,            \* where each caller stands in download_table / get_table
  call,          \* the arguments of each caller's current call
  namelist,      \* download_table's zip_ref.namelist()
  csv_filename,  \* download_table's csv_filename
  outcome,       \* what the current call returned or raised
  cause,         \* the failure first raised inside the current call
  gets,          \* GETs the current call has issued
  cachedAtCall,  \* the canonical file existed when the current call began
  seedAtCall,    \* <cache_dir>/<table_id>.csv existed when the call began
  prev,          \* each caller's previous call, once it has ended
  requests,      \* url -> GETs issued to it
  ncalls,        \* calls begun
  uin, uout      \* get_table_url on its own: the arguments and the result

vars == << fs, seeded, pc, call, namelist, csv_filename, outcome, cause, gets,
           cachedAtCall, seedAtCall, prev, requests, ncalls, uin, uout >>

Exists(path) == path \in DOMAIN fs

Put(files, path, content) == (path :> content) @@ files

Remove(files, path) == [x \in DOMAIN files \ {path} |-> files[x]]

\* Path.mkdir(parents=True, exist_ok=True)
MkdirP(files, path) ==
  LET parents == { SubSeq(path, 1, n) : n \in 0..Len(path) }
  IN  [x \in DOMAIN files \cup parents |->
         IF x \in DOMAIN files THEN files[x] ELSE Directory]

\* ------------------------------------------------------------ the failures
NoExc == [type |-> "", msg |-> << >>]
HTTPError(url) ==
  [type |-> "HTTPError", msg |-> <<"404 Client Error: Not Found for url: ">> \o url]
ConnectionError == [type |-> "ConnectionError", msg |-> <<"Connection aborted.">>]
BadZipFile == [type |-> "BadZipFile", msg |-> <<"File is not a zip file">>]
FileNotFoundError == [type |-> "FileNotFoundError", msg |-> <<"No such file or directory">>]
ComputeError == [type |-> "ComputeError", msg |-> <<"could not parse the file">>]
NoCsvError(table_id) ==
  [type |-> "ValueError",
   msg |-> <<"No CSV file found in the zip file for table ">> \o table_id]

\* a mutation of get_table's except clause: the failure is re-raised as it is
get_table_reraise(table_id, e) == e

\* get_table's except clause
get_table_except(table_id, e) ==
  [type |-> "Exception",
   msg |-> <<"Error fetching table ">> \o table_id \o <<": ">> \o e.msg]

NoTable == [source |-> << >>, data |-> << >>, separator |-> ""]
NoOutcome == [kind |-> "none", path |-> << >>, table |-> NoTable, exc |-> NoExc]
ReturnedPath(path) ==
  [kind |-> "returned", path |-> path, table |-> NoTable, exc |-> NoExc]
ReturnedTable(table) ==
  [kind |-> "returned", path |-> << >>, table |-> table, exc |-> NoExc]
RaisedExc(e) == [kind |-> "raised", path |-> << >>, table |-> NoTable, exc |-> e]

NoCall == [op |-> "", table_id |-> << >>, language |-> ""]
NoPrev == [call |-> NoCall, outcome |-> NoOutcome, gets |-> 0, cached |-> FALSE]

CsvPathOf(p) == csv_path(call[p].table_id, call[p].language)
ZipPathOf(p) == zip_path(call[p].table_id, call[p].language)
TableDirOf(p) == table_dir(call[p].table_id, call[p].language)
UrlOf(p) == get_table_url(call[p].table_id, call[p].language)

\* a failure leaves download_table; inside get_table the except clause has it
Raise(p, e) ==
  /\ pc' = [pc EXCEPT ![p] = "done"]
  /\ cause' = [cause EXCEPT ![p] = e]
  /\ outcome' = [outcome EXCEPT ![p] =
       RaisedExc(IF call[p].op = "get_table"
                 THEN get_table_except(call[p].table_id, e)
                 ELSE e)]

\* download_table returns csv_path: to its caller, or to get_table's read_csv
ReturnCsvPath(p) ==
  /\ cause' = cause
  /\ IF call[p].op = "get_table"
     THEN /\ pc' = [pc EXCEPT ![p] = "parse"]
          /\ outcome' = outcome
     ELSE /\ pc' = [pc EXCEPT ![p] = "done"]
          /\ outcome' = [outcome EXCEPT ![p] = ReturnedPath(CsvPathOf(p))]

\* -------------------------------------------------------------------- Init
\* what may be on disk before the first call: nothing, the file that
\* test_cache_reuse writes, or a canonical file, well-formed or not
SeedId == <<"1", "-", "0">>

SeedStates ==
  { [x \in {} |-> Directory] }
  \cup { Put(MkdirP([x \in {} |-> Directory], cache_root),
             test_seed_path(SeedId), Text(SeedRows)) }
  \cup { Put(MkdirP([x \in {} |-> Directory], table_dir(SeedId, "eng")),
             csv_path(SeedId, "eng"), Text(d)) : d \in {SeedRows, Malformed} }

NoInput == [table_id |-> << >>, language |-> ""]

Init ==
  /\ fs \in SeedStates
  /\ seeded = DOMAIN fs
  /\ pc = [p \in Procs |-> "idle"]
  /\ call = [p \in Procs |-> NoCall]
  /\ namelist = [p \in Procs |-> << >>]
  /\ csv_filename = [p \in Procs |-> << >>]
  /\ outcome = [p \in Procs |-> NoOutcome]
  /\ cause = [p \in Procs |-> NoExc]
  /\ gets = [p \in Procs |-> 0]
  /\ cachedAtCall = [p \in Procs |-> FALSE]
  /\ seedAtCall = [p \in Procs |-> FALSE]
  /\ prev = [p \in Procs |-> NoPrev]
  /\ requests = [u \in {} |-> 0]
  /\ ncalls = 0
  /\ uin = NoInput
  /\ uout = << >>

\* ----------------------------------------------------------------- actions
Count(u) == IF u \in DOMAIN requests THEN requests[u] ELSE 0

\* a mutation of CacheHit: the cache is never consulted
CacheHitNever(files, table_id, language) == FALSE

\* a mutation of CacheHit: the archive is looked for, not the canonical file
CacheHitArchive(files, table_id, language) == zip_path(table_id, language) \in DOMAIN files

\* if csv_path.exists()
CacheHit(files, table_id, language) == csv_path(table_id, language) \in DOMAIN files

\* download_table or get_table is entered: get_cache_dir, the paths, and the
\* existence check, which returns csv_path at once when the file is there
Enter(p) ==
  /\ \E op \in Ops, t \in Tables :
       LET i == t[1]
           l == t[2]
           hit == CacheHit(fs, i, l)
       IN  /\ call' = [call EXCEPT ![p] = [op |-> op, table_id |-> i, language |-> l]]
           /\ cachedAtCall' = [cachedAtCall EXCEPT ![p] = Exists(csv_path(i, l))]
           /\ seedAtCall' = [seedAtCall EXCEPT ![p] = Exists(test_seed_path(i))]
           /\ pc' = [pc EXCEPT ![p] =
                IF ~hit THEN "get" ELSE IF op = "get_table" THEN "parse" ELSE "done"]
           /\ outcome' = [outcome EXCEPT ![p] =
                IF hit /\ op = "download_table"
                THEN ReturnedPath(csv_path(i, l)) ELSE NoOutcome]
  /\ prev' = [prev EXCEPT ![p] =
       IF pc[p] = "done"
       THEN [call |-> call[p], outcome |-> outcome[p], gets |-> gets[p],
             cached |-> Exists(CsvPathOf(p))]
       ELSE NoPrev]
  /\ fs' = MkdirP(fs, cache_root)
  /\ namelist' = [namelist EXCEPT ![p] = << >>]
  /\ csv_filename' = [csv_filename EXCEPT ![p] = << >>]
  /\ cause' = [cause EXCEPT ![p] = NoExc]
  /\ gets' = [gets EXCEPT ![p] = 0]
  /\ ncalls' = ncalls + 1
  /\ UNCHANGED << seeded, requests, uin, uout >>

\* one caller, call after call
Call(p) ==
  /\ pc[p] \in {"idle", "done"}
  /\ ncalls < MaxCalls
  /\ Enter(p)

\* each of the callers makes one call, whenever it likes
CallOnce(p) ==
  /\ pc[p] = "idle"
  /\ Enter(p)

\* a mutation of HttpGet: a caller that finds another caller of the same
\* table between its GET and its clean-up shares that caller's request
HttpGetShared(p) ==
  /\ pc[p] = "get"
  /\ fs' = MkdirP(fs, TableDirOf(p))
  /\ LET shared == \E q \in Procs \ {p} :
                     /\ pc[q] \in {"save", "extract", "rename", "unlink"}
                     /\ ZipPathOf(q) = ZipPathOf(p)
     IN  /\ requests' = IF shared THEN requests
                        ELSE Put(requests, UrlOf(p), Count(UrlOf(p)) + 1)
         /\ gets' = [gets EXCEPT ![p] = IF shared THEN @ ELSE @ + 1]
  /\ \/ Raise(p, ConnectionError)
     \/ Raise(p, HTTPError(UrlOf(p)))
     \/ /\ pc' = [pc EXCEPT ![p] = "save"]
        /\ UNCHANGED << outcome, cause >>
  /\ UNCHANGED << seeded, call, namelist, csv_filename, cachedAtCall, seedAtCall,
                  prev, ncalls, uin, uout >>

\* table_dir.mkdir(parents=True, exist_ok=True); requests.get(url, stream=True);
\* response.raise_for_status()
HttpGet(p) ==
  /\ pc[p] = "get"
  /\ fs' = MkdirP(fs, TableDirOf(p))
  /\ requests' = Put(requests, UrlOf(p), Count(UrlOf(p)) + 1)
  /\ gets' = [gets EXCEPT ![p] = @ + 1]
  /\ \/ Raise(p, ConnectionError)
     \/ Raise(p, HTTPError(UrlOf(p)))
     \/ /\ pc' = [pc EXCEPT ![p] = "save"]
        /\ UNCHANGED << outcome, cause >>
  /\ UNCHANGED << seeded, call, namelist, csv_filename, cachedAtCall, seedAtCall,
                  prev, ncalls, uin, uout >>

\* with open(zip_path, 'wb') as f: the chunks of the streamed body are written
SaveZip(p) ==
  /\ pc[p] = "save"
  /\ \E b \in Bodies(call[p].table_id, call[p].language) :
       fs' = Put(fs, ZipPathOf(p), b)
  /\ pc' = [pc EXCEPT ![p] = "extract"]
  /\ UNCHANGED << seeded, call, namelist, csv_filename, outcome, cause, gets,
                  cachedAtCall, seedAtCall, prev, requests, ncalls, uin, uout >>

\* a mutation of ExtractAll: only the members that are .csv files are written
ExtractCsvOnly(files, dir, names) ==
  LET kept == { i \in 1..Len(names) : EndsWith(Lower(names[i]), DotCsv) }
      made == MkdirP(files, dir)
      written == { Append(dir, names[i]) : i \in kept }
  IN  [x \in DOMAIN made \cup written |->
         IF x \in written THEN Text(MemberData(x[Len(x)])) ELSE made[x]]

\* zip_ref.extractall(table_dir)
ExtractAll(files, dir, names) ==
  LET made == MkdirP(files, dir)
      written == { Append(dir, names[i]) : i \in 1..Len(names) }
  IN  [x \in DOMAIN made \cup written |->
         IF x \in written THEN Text(MemberData(x[Len(x)])) ELSE made[x]]

\* the loop over zip_ref.namelist(): the first name that ends in .csv, or
\* the empty name when there is none
FirstCsv(names) ==
  LET hits == { i \in 1..Len(names) : EndsWith(Lower(names[i]), DotCsv) }
  IN  IF hits = { } THEN << >>
      ELSE names[CHOOSE i \in hits : \A j \in hits : i <= j]

\* with zipfile.ZipFile(zip_path) as zip_ref: extractall, then the search
Extract(p) ==
  /\ pc[p] = "extract"
  /\ IF ~Exists(ZipPathOf(p))
     THEN /\ Raise(p, FileNotFoundError)
          /\ UNCHANGED << fs, namelist, csv_filename >>
     ELSE IF ~fs[ZipPathOf(p)].ok
     THEN /\ Raise(p, BadZipFile)
          /\ UNCHANGED << fs, namelist, csv_filename >>
     ELSE LET names == fs[ZipPathOf(p)].names
              found == FirstCsv(names)
          IN  /\ fs' = ExtractAll(fs, TableDirOf(p), names)
              /\ namelist' = [namelist EXCEPT ![p] = names]
              /\ csv_filename' = [csv_filename EXCEPT ![p] = found]
              /\ IF found = << >>
                 THEN Raise(p, NoCsvError(call[p].table_id))
                 ELSE /\ pc' = [pc EXCEPT ![p] =
                           IF Append(TableDirOf(p), found) # CsvPathOf(p)
                           THEN "rename" ELSE "unlink"]
                      /\ UNCHANGED << outcome, cause >>
  /\ UNCHANGED << seeded, call, gets, cachedAtCall, seedAtCall, prev,
                  requests, ncalls, uin, uout >>

\* extracted_path.rename(csv_path): as on POSIX, a file already at csv_path is
\* replaced
Rename(p) ==
  /\ pc[p] = "rename"
  /\ LET extracted_path == Append(TableDirOf(p), csv_filename[p])
     IN  IF ~Exists(extracted_path)
         THEN /\ Raise(p, FileNotFoundError)
              /\ fs' = fs
         ELSE /\ fs' = Put(Remove(fs, extracted_path), CsvPathOf(p),
                           fs[extracted_path])
              /\ pc' = [pc EXCEPT ![p] = "unlink"]
              /\ UNCHANGED << outcome, cause >>
  /\ UNCHANGED << seeded, call, namelist, csv_filename, gets,
                  cachedAtCall, seedAtCall, prev, requests, ncalls, uin, uout >>

\* zip_path.unlink(); return csv_path
Unlink(p) ==
  /\ pc[p] = "unlink"
  /\ IF ~Exists(ZipPathOf(p))
     THEN /\ Raise(p, FileNotFoundError)
          /\ fs' = fs
     ELSE /\ fs' = Remove(fs, ZipPathOf(p))
          /\ ReturnCsvPath(p)
  /\ UNCHANGED << seeded, call, namelist, csv_filename, gets,
                  cachedAtCall, seedAtCall, prev, requests, ncalls, uin, uout >>

\* delimiter = ";" if language == "fra" else ","
delimiter(language) == IF language = "fra" THEN ";" ELSE ","

\* get_table after download_table: pl.read_csv(csv_path, separator=delimiter)
ReadCsv(p) ==
  /\ pc[p] = "parse"
  /\ IF ~Exists(CsvPathOf(p))
     THEN Raise(p, FileNotFoundError)
     ELSE IF fs[CsvPathOf(p)].data = Malformed
     THEN Raise(p, ComputeError)
     ELSE /\ pc' = [pc EXCEPT ![p] = "done"]
          /\ cause' = cause
          /\ outcome' = [outcome EXCEPT ![p] =
               ReturnedTable([source |-> CsvPathOf(p),
                              data |-> fs[CsvPathOf(p)].data,
                              separator |-> delimiter(call[p].language)])]
  /\ UNCHANGED << fs, seeded, call, namelist, csv_filename, gets,
                  cachedAtCall, seedAtCall, prev, requests, ncalls, uin, uout >>

\* ---------------------------------------------------------- specifications
Download(p) ==
  \/ HttpGet(p)
  \/ SaveZip(p)
  \/ Extract(p)
  \/ Rename(p)
  \/ Unlink(p)
  \/ ReadCsv(p)

\* two callers, one call each, their steps interleaved
Next == \E p \in Procs : CallOnce(p) \/ Download(p)

Spec == Init /\ [][Next]_vars

\* one caller: the calls follow one another
SeqNext == Call(1) \/ Download(1)

SeqSpec == Init /\ [][SeqNext]_vars

\* get_table_url on its own, over every short identifier
IdChars == { "1", "0", "-", " " }

RECURSIVE Strings(_, _)
Strings(chars, n) ==
  IF n = 0 THEN { << >> }
  ELSE LET shorter == Strings(chars, n - 1)
       IN  shorter \cup
           { Append(s, c) : s \in { t \in shorter : Len(t) = n - 1 }, c \in chars }

UrlLangs == { "eng", "fra", "deu" }

UrlInit ==
  /\ uin \in [table_id : Strings(IdChars, MaxIdLen), language : UrlLangs]
  /\ uout = << >>
  /\ fs = [x \in {} |-> Directory]
  /\ seeded = { }
  /\ pc = [p \in Procs |-> "idle"]
  /\ call = [p \in Procs |-> NoCall]
  /\ namelist = [p \in Procs |-> << >>]
  /\ csv_filename = [p \in Procs |-> << >>]
  /\ outcome = [p \in Procs |-> NoOutcome]
  /\ cause = [p \in Procs |-> NoExc]
  /\ gets = [p \in Procs |-> 0]
  /\ cachedAtCall = [p \in Procs |-> FALSE]
  /\ seedAtCall = [p \in Procs |-> FALSE]
  /\ prev = [p \in Procs |-> NoPrev]
  /\ requests = [u \in {} |-> 0]
  /\ ncalls = 0

BuildUrl ==
  /\ uout = << >>
  /\ uout' = get_table_url(uin.table_id, uin.language)
  /\ UNCHANGED << fs, seeded, pc, call, namelist, csv_filename, outcome,
                  cause, gets, cachedAtCall, seedAtCall, prev, requests,
                  ncalls, uin >>

UrlNext == BuildUrl

UrlSpec == UrlInit /\ [][UrlNext]_vars

\* ------------------------------------------------------------------ claims
Done(p) == pc[p] = "done"

IsGet(p) == call[p].op = "get_table"

\* s holds sub as a run of consecutive pieces
Contains(s, sub) ==
  \E i \in 0..Len(s) : i + Len(sub) <= Len(s) /\ SubSeq(s, i + 1, i + Len(sub)) = sub

StartsWith(s, prefix) ==
  Len(s) >= Len(prefix) /\ SubSeq(s, 1, Len(prefix)) = prefix

\* the files directly inside a directory
FilesIn(dir) ==
  { x \in DOMAIN fs : Len(x) = Len(dir) + 1 /\ SubSeq(x, 1, Len(dir)) = dir }

\* download_table has returned csv_path after a cache miss
FetchedOk(p) ==
  /\ gets[p] = 1
  /\ \/ pc[p] = "parse"
     \/ Done(p) /\ ~IsGet(p) /\ outcome[p].kind = "returned"
     \/ Done(p) /\ IsGet(p) /\ cause[p].type \in {"", "ComputeError"}

\* C1: a call that begins when the canonical file of its (identifier,
\* language) pair exists issues no GET; download_table returns the canonical
\* path, get_table goes straight to reading that file and returns the table
\* read from it (or the failure of reading it).
C1_CachedCallIssuesNoRequest ==
  \A p \in Procs :
    cachedAtCall[p] =>
      /\ gets[p] = 0
      /\ pc[p] \in {"parse", "done"}
      /\ Done(p) /\ ~IsGet(p) => outcome[p] = ReturnedPath(CsvPathOf(p))
      /\ Done(p) /\ IsGet(p) =>
           \/ /\ outcome[p].kind = "returned"
              /\ outcome[p].table.source = CsvPathOf(p)
           \/ cause[p] = ComputeError

\* a call served from a canonical file that an earlier fetch wrote
C1_Witness ==
  \E p \in Procs :
    /\ cachedAtCall[p] /\ Done(p) /\ IsGet(p)
    /\ CsvPathOf(p) \notin seeded
    /\ outcome[p].kind = "returned"
    /\ \E q \in Procs \ {p} : gets[q] = 1 /\ call[q].table_id = call[p].table_id

SameArgsAsBefore(p) == prev[p].call # NoCall /\ prev[p].call = call[p]

\* C2 as stated: two calls in sequence with the same arguments issue at most
\* one GET between them, whatever the first call's outcome.
C2_TwoCallsOneRequest ==
  \A p \in Procs : SameArgsAsBefore(p) => prev[p].gets + gets[p] <= 1

\* C2, amended: when the first of two calls in sequence with the same arguments
\* leaves the canonical file in the cache, the two calls issue at most one GET
\* between them, the second issues none, and the second ends as the first did.
C2_SecondCallFromCache ==
  \A p \in Procs :
    SameArgsAsBefore(p) /\ prev[p].cached =>
      /\ gets[p] = 0
      /\ prev[p].gets + gets[p] <= 1
      /\ Done(p) => outcome[p] = prev[p].outcome

\* the first call fetched the table, the second returned the same from the cache
C2_Witness ==
  /\ SameArgsAsBefore(1) /\ prev[1].cached
  /\ prev[1].gets = 1
  /\ prev[1].outcome.kind = "returned"
  /\ Done(1) /\ outcome[1] = prev[1].outcome

\* C3: when a call has returned or raised, the temporary archive is not on disk.
C3_ArchiveGoneAfterCall ==
  \A p \in Procs : Done(p) => ~Exists(ZipPathOf(p))

C5_FailuresAreWrapped ==
  \A p \in Procs :
    IsGet(p) =>
      /\ cause[p] # NoExc =>
           /\ Done(p)
           /\ outcome[p].kind = "raised"
           /\ StartsWith(outcome[p].exc.msg, <<"Error fetching table ">>)
           /\ Contains(outcome[p].exc.msg, call[p].table_id \o <<": ">>)
           /\ Contains(outcome[p].exc.msg, cause[p].msg)
      /\ outcome[p].kind = "raised" =>
           /\ outcome[p].exc.type = "Exception"
           /\ cause[p] # NoExc

\* get_table after a 404
C5_Witness ==
  \E p \in Procs :
    /\ IsGet(p) /\ Done(p)
    /\ cause[p].type = "HTTPError"
    /\ outcome[p].exc.type = "Exception"

\* an identifier without its hyphens and spaces
Stripped(s) == SelectSeq(s, LAMBDA c : c \notin {"-", " "})

\* C6: the URL is the base path, the identifier without its hyphens and
\* spaces, "-", the language tag as given, ".zip"; so identifiers that differ
\* in hyphens and spaces only have the same URL.
C6_UrlOfStrippedIdentifier ==
  uout # << >> =>
    /\ uout = base_url \o Stripped(uin.table_id) \o <<"-", uin.language, ".zip">>
    /\ \A other \in Strings(IdChars, MaxIdLen) :
         Stripped(other) = Stripped(uin.table_id)
           => get_table_url(other, uin.language) = uout

\* the URL of an identifier with a hyphen and a space, in an unrecognized language
C6_Witness ==
  /\ uin = [table_id |-> <<"1", "-", " ">>, language |-> "deu"]
  /\ uout = base_url \o <<"1", "-", "deu", ".zip">>

\* C7: with <cache_dir>/<table_id>.csv on disk before the call, get_table
\* issues no GET.
C7_TestSeedIsReused ==
  \A p \in Procs : seedAtCall[p] /\ IsGet(p) => gets[p] = 0

\* C8: when a call fails because the archive has no .csv member, no member of
\* the archive has been written into the entry directory and the canonical
\* file does not exist.
C8_NothingExtractedWithoutCsv ==
  \A p \in Procs :
    Done(p) /\ cause[p].type = "ValueError" =>
      /\ ~Exists(CsvPathOf(p))
      /\ \A i \in 1..Len(namelist[p]) :
           ~Exists(Append(TableDirOf(p), namelist[p][i]))

InFlight(p) == pc[p] \in {"save", "extract", "rename", "unlink"}

\* C9: two calls for one table that both found no canonical file are in flight
\* together, each with its own GET to the same URL, the same archive path and
\* the same entry directory.
C9_BothCallersDownload ==
  \A p, q \in Procs :
    p # q /\ InFlight(p) /\ InFlight(q)
      /\ call[p].table_id = call[q].table_id /\ call[p].language = call[q].language
    => /\ gets[p] = 1 /\ gets[q] = 1
       /\ Count(UrlOf(p)) = 2
       /\ ZipPathOf(p) = ZipPathOf(q)
       /\ TableDirOf(p) = TableDirOf(q)
       /\ ~cachedAtCall[p] /\ ~cachedAtCall[q]

\* both callers have written the same archive path
C9_Witness ==
  /\ pc[1] = "extract" /\ pc[2] = "extract"
  /\ call[1].table_id = call[2].table_id /\ call[1].language = call[2].language
  /\ ~Exists(CsvPathOf(1))
  /\ Count(UrlOf(1)) = 2

\* the tables with this URL whose canonical file a download has written
FetchedFor(u) ==
  { t \in Tables : /\ get_table_url(t[1], t[2]) = u
                   /\ Exists(csv_path(t[1], t[2]))
                   /\ csv_path(t[1], t[2]) \notin seeded }

\* C10: identifiers that differ in hyphens and spaces only have one URL and
\* different canonical paths; every canonical file a download wrote took a GET
\* of its own to that URL, and a call without a GET found its own file.
C10_RawIdentifierIsTheKey ==
  /\ \A t1, t2 \in Tables :
       t1 # t2 /\ t1[2] = t2[2] /\ Stripped(t1[1]) = Stripped(t2[1]) =>
         /\ get_table_url(t1[1], t1[2]) = get_table_url(t2[1], t2[2])
         /\ csv_path(t1[1], t1[2]) # csv_path(t2[1], t2[2])
  /\ \A t \in Tables :
       Count(get_table_url(t[1], t[2])) >= Cardinality(FetchedFor(get_table_url(t[1], t[2])))
  /\ \A p \in Procs :
       Done(p) /\ outcome[p].kind = "returned" /\ gets[p] = 0 => Exists(CsvPathOf(p))

\* both identifiers fetched from an empty cache: two GETs to the one URL
C10_Witness ==
  /\ seeded = { }
  /\ Cardinality(FetchedFor(get_table_url(<<"1", "0">>, "eng"))) = 2
  /\ Count(get_table_url(<<"1", "0">>, "eng")) = 2
====
